---- MODULE Spec2Model ----
(***************************************************************************)
(* State-machine model of the duplex conversational session of             *)
(* src/asyncelevenlabs: AsyncConversation and AsyncClientTools             *)
(* (conversation.py) and AsyncDefaultAudioInterface (audio.py).            *)
(*                                                                         *)
(* Execution model.  Every coroutine runs on one asyncio event loop, so    *)
(* the code between two suspending awaits is one atomic action.  An await  *)
(* of a coroutine of this repository that holds no suspending await        *)
(* (client_tools.start/stop, audio_interface.output) does not suspend.     *)
(* Awaits of the socket (connect, send, close), of the signed-url request, *)
(* of a tool handler and of run_in_executor are suspension points.  The    *)
(* playback thread (_output_thread) and the capture callback thread are    *)
(* real threads: their steps interleave with everything, also with the     *)
(* body of interrupt(), which is therefore modelled step by step while it  *)
(* holds the event loop (variable cur).                                    *)
(***************************************************************************)
EXTENDS Integers, Sequences, FiniteSets, TLC

\* ------------------------------------------------------------------ bounds
MaxStarts == 2      \* invocations of start_session on the session object
MaxEnds == 1        \* invocations of end_session by the owner of the session
MaxCaptures == 1    \* frames delivered by the capture device
MaxEvents == 3      \* inbound socket messages over the object's lifetime
MaxEventId == 2     \* event ids carried by audio / interruption / ping events
MaxRegisters == 2   \* calls of client_tools.register after the program's own

StartIds == 1..MaxStarts
EndIds == 1..MaxEnds
CaptureIds == 1..MaxCaptures
EventIds == 1..MaxEventId
RegisterIds == 1..MaxRegisters

\* A start_session invocation i owns the socket i it opens (local `ws`) and,
\* when it reaches audio_interface.start, the streams and the playback thread i.
StartTask(i) == <<"start", i>>
EndTask(i) == <<"end", i>>
CbTask(i) == <<"cb", i>>
StartTasks == {StartTask(i) : i \in StartIds}
EndTasks == {EndTask(i) : i \in EndIds}
CbTasks == {CbTask(i) : i \in CaptureIds}
Tasks == StartTasks \cup EndTasks \cup CbTasks

None == 0           \* Python None for handles that are otherwise ids >= 1
NoMs == -1          \* ping_ms: null

VARIABLES
    \* AsyncConversation
    running,            \* self._running
    lastInterruptId,    \* self._last_interrupt_id
    conversationId,     \* self._conversation_id (None or an id)
    ws,                 \* self._ws (None or a socket id)
    latencyCallback,    \* self.callback_latency_measurement is set
    \* AsyncClientTools
    toolsRunning,       \* client_tools._running
    tools,              \* client_tools.tools: registered name -> handler
    registrations,      \* the register() calls made, with their outcome
    \* the sockets
    sock,               \* socket id -> "none" | "open" | "closedOK" | "closedErr"
    \* coroutines on the event loop
    pc,                 \* task -> position
    call,               \* start id -> the tool call its loop is handling
    joinTarget,         \* task -> thread its audio stop() is joining
    cbSock,             \* capture id -> socket its input_callback closes over
    cur,                \* the task that holds the event loop, or NoTask
    intPc,              \* position of the running interrupt() task
    pendingInterrupts,  \* interrupt() tasks created and not yet run
    \* AsyncDefaultAudioInterface
    shouldStop,         \* self.should_stop
    outputQueue,        \* self.output_queue
    outputThread,       \* self.output_thread (None or a thread id)
    inStream,           \* self.in_stream
    outStream,          \* self.out_stream
    pa,                 \* self.p
    inputCallback,      \* self.input_callback (None or the start id that made it)
    inState,            \* stream id -> "none" | "open" | "closed"
    outState,           \* stream id -> "none" | "open" | "closed"
    poolShutdown,       \* self.thread_pool has been shut down
    thr,                \* thread id -> position in _output_thread
    thrFrame,           \* thread id -> frame taken from the queue
    \* history
    received,           \* inbound events handled, with the watermark and the
                        \* stop flag of the audio capability at receipt
    outputCalls,        \* frames passed to audio_interface.output
    written,            \* frames written to the output device
    sent,               \* messages sent on the sockets
    latencyNotes,       \* latency notifications created
    handlerCalls,       \* tool handler invocations
    count               \* call counters

sessionVars == <<running, lastInterruptId, conversationId, ws, latencyCallback>>
toolVars == <<toolsRunning, tools, registrations>>
taskVars == <<pc, call, joinTarget, cbSock, cur, intPc, pendingInterrupts>>
audioVars == <<shouldStop, outputQueue, outputThread, inStream, outStream, pa,
               inputCallback, inState, outState, poolShutdown, thr, thrFrame>>
histVars == <<received, outputCalls, written, sent, latencyNotes, handlerCalls, count>>
vars == <<sessionVars, toolVars, sock, taskVars, audioVars, histVars>>

Bump(c, k) == [c EXCEPT ![k] = @ + 1]
CounterNames == {"attempts", "connects", "endCalls", "audioStarts", "audioStops",
                 "toolStarts", "toolStops", "closes", "endRaises", "events", "captures"}

\* requires_auth as the program constructs its session.
RequiresAuth == TRUE

NoTask == <<"none", 0>>
IntTask == <<"interrupt", 0>>

ToolNames == {"playExistingSong", "unknownTool"}
RegisteredTools == {"playExistingSong"}
\* Handlers are named by numbers; the program registers handler MainHandler.
MainHandler == 1
Handlers == {1, 2}
CallIds == {1, 2}
ConvIds == {1, 2}
PingMs == {NoMs, 0, 120}
Outcomes == {"value", "nothing", "raise"}

NoEvent == [type |-> "none", id |-> 0, name |-> "", ms |-> NoMs, sock |-> None]
Event(ty, id, name, ms, k) ==
    [type |-> ty, id |-> id, name |-> name, ms |-> ms, sock |-> k]

Init ==
    /\ running = FALSE
    /\ lastInterruptId = 0
    /\ conversationId = None
    /\ ws = None
    /\ latencyCallback \in BOOLEAN
    /\ toolsRunning = FALSE
    /\ tools = [n \in RegisteredTools |-> MainHandler]
    /\ registrations = <<>>
    /\ sock = [i \in StartIds |-> "none"]
    /\ pc = [t \in Tasks |-> "new"]
    /\ call = [i \in StartIds |-> NoEvent]
    /\ joinTarget = [t \in Tasks |-> None]
    /\ cbSock = [c \in CaptureIds |-> None]
    /\ cur = NoTask
    /\ intPc = "idle"
    /\ pendingInterrupts = 0
    /\ shouldStop = FALSE
    /\ outputQueue = <<>>
    /\ outputThread = None
    /\ inStream = None
    /\ outStream = None
    /\ pa = None
    /\ inputCallback = None
    /\ inState = [i \in StartIds |-> "none"]
    /\ outState = [i \in StartIds |-> "none"]
    /\ poolShutdown = FALSE
    /\ thr = [i \in StartIds |-> "none"]
    /\ thrFrame = [i \in StartIds |-> None]
    /\ received = <<>>
    /\ outputCalls = <<>>
    /\ written = <<>>
    /\ sent = <<>>
    /\ latencyNotes = <<>>
    /\ handlerCalls = <<>>
    /\ count = [k \in CounterNames |-> 0]

\* ------------------------------------------------- AsyncDefaultAudioInterface

\* Variant of AudioOutput: the frame is queued whatever the stop flag says.
AudioOutputAlways(q, stopped, frame) == Append(q, frame)

\* output(): the queue after `if not should_stop.is_set(): put_nowait(audio)`.
AudioOutput(q, stopped, frame) == IF stopped THEN q ELSE Append(q, frame)

\* _output_thread, `while not self.should_stop.is_set()`.
ThreadCheck(g) ==
    /\ thr[g] = "check"
    /\ thr' = [thr EXCEPT ![g] = IF shouldStop THEN "exited" ELSE "get"]
    /\ UNCHANGED <<sessionVars, toolVars, sock, taskVars, histVars, shouldStop,
                   outputQueue, outputThread, inStream, outStream, pa, inputCallback,
                   inState, outState, poolShutdown, thrFrame>>

\* _output_thread, `audio = self.output_queue.get(timeout=0.25)`: a frame, or
\* queue.Empty once the timeout passes on an empty queue.
ThreadGet(g) ==
    /\ thr[g] = "get"
    /\ IF outputQueue # <<>>
          THEN /\ thrFrame' = [thrFrame EXCEPT ![g] = Head(outputQueue)]
               /\ outputQueue' = Tail(outputQueue)
               /\ thr' = [thr EXCEPT ![g] = "check2"]
          ELSE /\ thr' = [thr EXCEPT ![g] = "check"]
               /\ UNCHANGED <<thrFrame, outputQueue>>
    /\ UNCHANGED <<sessionVars, toolVars, sock, taskVars, histVars, shouldStop,
                   outputThread, inStream, outStream, pa, inputCallback,
                   inState, outState, poolShutdown>>

\* _output_thread, the second `if not self.should_stop.is_set()`.
ThreadCheck2(g) ==
    /\ thr[g] = "check2"
    /\ thr' = [thr EXCEPT ![g] = IF shouldStop THEN "check" ELSE "write"]
    /\ thrFrame' = [thrFrame EXCEPT ![g] = IF shouldStop THEN None ELSE @]
    /\ UNCHANGED <<sessionVars, toolVars, sock, taskVars, histVars, shouldStop,
                   outputQueue, outputThread, inStream, outStream, pa, inputCallback,
                   inState, outState, poolShutdown>>

\* _output_thread, `self.out_stream.write(audio)`; a write to a stream that is
\* not open raises, which `except Exception` swallows.
ThreadWrite(g) ==
    /\ thr[g] = "write"
    /\ written' = IF outStream # None /\ outState[outStream] = "open"
                     THEN Append(written, thrFrame[g]) ELSE written
    /\ thr' = [thr EXCEPT ![g] = "check"]
    /\ thrFrame' = [thrFrame EXCEPT ![g] = None]
    /\ UNCHANGED <<sessionVars, toolVars, sock, taskVars, shouldStop,
                   outputQueue, outputThread, inStream, outStream, pa, inputCallback,
                   inState, outState, poolShutdown,
                   received, outputCalls, sent, latencyNotes, handlerCalls, count>>

\* interrupt() starts running: the event loop picks the task created by
\* asyncio.create_task(self.audio_interface.interrupt()).
InterruptBegin ==
    /\ cur = NoTask
    /\ pendingInterrupts > 0
    /\ pendingInterrupts' = pendingInterrupts - 1
    /\ cur' = IntTask
    /\ intPc' = "get"
    /\ UNCHANGED <<sessionVars, toolVars, sock, audioVars, histVars,
                   pc, call, joinTarget, cbSock>>

\* Variant of InterruptStep: one get_nowait and no loop around it.
InterruptStepOnce(q) == IF q = <<>> THEN <<"ret", q>> ELSE <<"ret", Tail(q)>>

\* interrupt(), one `self.output_queue.get_nowait()`: the position after it and
\* the queue after it. queue.Empty ends the loop.
InterruptStep(q) == IF q = <<>> THEN <<"ret", q>> ELSE <<"get", Tail(q)>>

InterruptGet ==
    /\ cur = IntTask
    /\ intPc = "get"
    /\ intPc' = InterruptStep(outputQueue)[1]
    /\ outputQueue' = InterruptStep(outputQueue)[2]
    /\ UNCHANGED <<sessionVars, toolVars, sock, histVars,
                   pc, call, joinTarget, cbSock, cur, pendingInterrupts,
                   shouldStop, outputThread, inStream, outStream, pa, inputCallback,
                   inState, outState, poolShutdown, thr, thrFrame>>

\* interrupt() has returned; the task ends and frees the event loop.
InterruptReturn ==
    /\ cur = IntTask
    /\ intPc = "ret"
    /\ intPc' = "idle"
    /\ cur' = NoTask
    /\ UNCHANGED <<sessionVars, toolVars, sock, audioVars, histVars,
                   pc, call, joinTarget, cbSock, pendingInterrupts>>

\* ------------------------------------------------------------ AsyncClientTools

\* Variant of RegisterTool: the name's entry is assigned without the lookup.
RegisterToolOverwrite(reg, name, handler, isCoroutine) ==
    IF ~isCoroutine THEN <<reg, TRUE>>
    ELSE <<[n \in DOMAIN reg \cup {name} |-> IF n = name THEN handler ELSE reg[n]], FALSE>>

\* register(): the registry after the call, and whether the call raised
\* ValueError (the handler is no coroutine function, or the name is taken).
RegisterTool(reg, name, handler, isCoroutine) ==
    IF ~isCoroutine THEN <<reg, TRUE>>
    ELSE IF name \in DOMAIN reg THEN <<reg, TRUE>>
    ELSE <<[n \in DOMAIN reg \cup {name} |-> IF n = name THEN handler ELSE reg[n]], FALSE>>

\* A call of client_tools.register, a synchronous method, between two steps of
\* the event loop.
Register(r, name, handler, isCoroutine) ==
    LET res == RegisterTool(tools, name, handler, isCoroutine) IN
    /\ cur = NoTask
    /\ Len(registrations) = r - 1
    /\ tools' = res[1]
    /\ registrations' = Append(registrations,
           [name |-> name, handler |-> handler, isCoroutine |-> isCoroutine,
            raised |-> res[2]])
    /\ UNCHANGED <<sessionVars, toolsRunning, sock, taskVars, audioVars, histVars>>

\* ------------------------------------------------------------ AsyncConversation

Msg(ty, id, isError, result, k) ==
    [type |-> ty, id |-> id, isError |-> isError, result |-> result, sock |-> k]

\* A send on socket k goes out; on a closed socket ws.send raises.
CanSend(k) == k # None /\ sock[k] = "open"

\* Where a task goes when end_session returns to it, or raises into it: a
\* start_session task leaves its `async with` block, the others end.
IsStart(t) == t \in StartTasks
ReturnPc(t) == IF IsStart(t) THEN "exit_with" ELSE "returned"
RaisePc(t) == IF IsStart(t) THEN "exit_raise" ELSE "raised"
HoldAfter(t) == IF IsStart(t) THEN t ELSE NoTask

\* Variant of StartGuard: the guard tests the socket instead of the flag.
StartGuardOnSocket == ws # None

\* start_session, `if self._running: return`.
StartGuard == running

\* start_session up to its first await.
StartSession(i) ==
    LET t == StartTask(i) IN
    /\ cur = NoTask
    /\ pc[t] = "new"
    /\ \A j \in StartIds : j < i => pc[StartTask(j)] # "new"
    /\ IF StartGuard
          THEN /\ pc' = [pc EXCEPT ![t] = "returned"]
               /\ UNCHANGED <<running, count>>
          ELSE /\ running' = TRUE
               /\ pc' = [pc EXCEPT ![t] = IF RequiresAuth THEN "resolve" ELSE "connect"]
               /\ count' = Bump(count, "attempts")
    /\ UNCHANGED <<lastInterruptId, conversationId, ws, latencyCallback,
                   toolVars, sock, call, joinTarget, cbSock, cur, intPc, pendingInterrupts,
                   audioVars, received, outputCalls, written, sent, latencyNotes,
                   handlerCalls>>

\* `await self._get_signed_url()` returns.
ResolveOk(i) ==
    /\ cur = NoTask
    /\ pc[StartTask(i)] = "resolve"
    /\ pc' = [pc EXCEPT ![StartTask(i)] = "connect"]
    /\ UNCHANGED <<sessionVars, toolVars, sock, call, joinTarget, cbSock, cur, intPc,
                   pendingInterrupts, audioVars, histVars>>

\* `await self._get_signed_url()` raises: start_session raises, _running stays set.
ResolveFail(i) ==
    /\ cur = NoTask
    /\ pc[StartTask(i)] = "resolve"
    /\ pc' = [pc EXCEPT ![StartTask(i)] = "raised"]
    /\ UNCHANGED <<sessionVars, toolVars, sock, call, joinTarget, cbSock, cur, intPc,
                   pendingInterrupts, audioVars, histVars>>

\* ws_connect raises: start_session raises, _running stays set.
ConnectFail(i) ==
    /\ cur = NoTask
    /\ pc[StartTask(i)] = "connect"
    /\ pc' = [pc EXCEPT ![StartTask(i)] = "raised"]
    /\ count' = Bump(count, "connects")
    /\ UNCHANGED <<sessionVars, toolVars, sock, call, joinTarget, cbSock, cur, intPc,
                   pendingInterrupts, audioVars, received, outputCalls, written, sent,
                   latencyNotes, handlerCalls>>

\* Variant of InitialSend: the configuration message is not sent.
InitialSendSkipped(log, k) == log

\* `await ws.send(json.dumps({"type": "conversation_initiation_client_data", ...}))`:
\* the socket's log after the initial configuration message went out on socket k.
InitialSend(log, k) ==
    Append(log, Msg("conversation_initiation_client_data", 0, FALSE, "", k))

\* ws_connect succeeds: self._ws = ws, client_tools.start(), and the initial
\* configuration message is sent.
ConnectOk(i) ==
    /\ cur = NoTask
    /\ pc[StartTask(i)] = "connect"
    /\ sock' = [sock EXCEPT ![i] = "open"]
    /\ ws' = i
    /\ toolsRunning' = TRUE
    /\ sent' = InitialSend(sent, i)
    /\ pc' = [pc EXCEPT ![StartTask(i)] = "init_sent"]
    /\ count' = Bump(Bump(count, "connects"), "toolStarts")
    /\ UNCHANGED <<running, lastInterruptId, conversationId, latencyCallback,
                   tools, registrations, call, joinTarget, cbSock, cur, intPc,
                   pendingInterrupts, audioVars, received, outputCalls, written,
                   latencyNotes, handlerCalls>>

\* The awaited send of the initial configuration raises, the connection having
\* gone down meanwhile: the exception leaves start_session.
InitSendFail(i) ==
    /\ cur = NoTask
    /\ pc[StartTask(i)] = "init_sent"
    /\ sock[i] # "open"
    /\ pc' = [pc EXCEPT ![StartTask(i)] = "exit_raise"]
    /\ cur' = StartTask(i)
    /\ UNCHANGED <<sessionVars, toolVars, sock, call, joinTarget, cbSock, intPc,
                   pendingInterrupts, audioVars, histVars>>

StartOutcomes == {"ok", "fail_in", "fail_out"}

\* `await self.audio_interface.start(input_callback)`: AsyncDefaultAudioInterface.start.
\* Opening the capture or the playback stream may raise; the exception leaves
\* start_session through its `async with`.
AudioStart(i, outcome) ==
    LET t == StartTask(i) IN
    /\ cur = NoTask
    /\ pc[t] = "init_sent"
    /\ inputCallback' = i
    /\ pa' = i
    /\ count' = Bump(count, "audioStarts")
    /\ IF outcome = "fail_in"
          THEN UNCHANGED <<inStream, inState>>
          ELSE /\ inStream' = i
               /\ inState' = [inState EXCEPT ![i] = "open"]
    /\ IF outcome = "ok"
          THEN /\ outStream' = i
               /\ outState' = [outState EXCEPT ![i] = "open"]
               /\ outputThread' = i
               /\ thr' = [thr EXCEPT ![i] = "check"]
               /\ pc' = [pc EXCEPT ![t] = "recv"]
               /\ cur' = NoTask
          ELSE /\ UNCHANGED <<outStream, outState, outputThread, thr>>
               /\ pc' = [pc EXCEPT ![t] = "exit_raise"]
               /\ cur' = t
    /\ UNCHANGED <<sessionVars, toolVars, sock, call, joinTarget, cbSock, intPc,
                   pendingInterrupts, shouldStop, outputQueue, poolShutdown, thrFrame,
                   received, outputCalls, written, sent, latencyNotes, handlerCalls>>

\* The receive loop gets a message from its socket.
Receiving(i) ==
    /\ cur = NoTask
    /\ pc[StartTask(i)] = "recv"
    /\ sock[i] = "open"
    /\ count["events"] < MaxEvents

Rec(ty, id, name, ms) ==
    [type |-> ty, id |-> id, name |-> name, ms |-> ms, wm |-> lastInterruptId,
     stopped |-> shouldStop]

\* `if not self._running: break`.
LoopBreak(i) ==
    /\ Receiving(i)
    /\ ~running
    /\ pc' = [pc EXCEPT ![StartTask(i)] = "exit_with"]
    /\ cur' = StartTask(i)
    /\ count' = Bump(count, "events")
    /\ UNCHANGED <<sessionVars, toolVars, sock, call, joinTarget, cbSock, intPc,
                   pendingInterrupts, audioVars, received, outputCalls, written, sent,
                   latencyNotes, handlerCalls>>

\* _handle_message, "conversation_initiation_metadata".
RecvMetadata(i, c) ==
    /\ Receiving(i)
    /\ running
    /\ received' = Append(received, Rec("conversation_initiation_metadata", c, "", NoMs))
    /\ conversationId' = c
    /\ count' = Bump(count, "events")
    /\ UNCHANGED <<running, lastInterruptId, ws, latencyCallback, toolVars,
                   sock, taskVars, audioVars, outputCalls, written, sent, latencyNotes,
                   handlerCalls>>

\* Events the protocol does not define: a type _handle_message has no branch
\* for, a message without "type", a known type without its event body or
\* without a field the branch indexes (event_id, tool_call_id).
MalformedKinds == {"unknown_type", "missing_type", "missing_field"}

\* _handle_message on such an event: no branch matches an unknown type and the
\* method returns; the other two raise KeyError at `message["type"]` or at the
\* branch's indexing.
HandleMalformed(kind) == IF kind = "unknown_type" THEN "ignored" ELSE "KeyError"

\* The receive loop gets such an event. The KeyError leaves _handle_message and
\* is caught by the loop's `except Exception`, which calls end_session.
RecvMalformed(i, kind) ==
    LET t == StartTask(i) IN
    /\ Receiving(i)
    /\ running
    /\ received' = Append(received, Rec(kind, 0, "", NoMs))
    /\ count' = Bump(count, "events")
    /\ IF HandleMalformed(kind) = "ignored"
          THEN UNCHANGED <<pc, cur>>
          ELSE /\ pc' = [pc EXCEPT ![t] = "end_entry"]
               /\ cur' = t
    /\ UNCHANGED <<sessionVars, toolVars, sock, call, joinTarget, cbSock, intPc,
                   pendingInterrupts, audioVars, outputCalls, written, sent,
                   latencyNotes, handlerCalls>>

\* Variants of IsStale: the comparison written strictly, and written one too far.
IsStaleStrict(id, watermark) == id < watermark
IsStaleOneTooFar(id, watermark) == id <= watermark + 1

\* _handle_message, "audio": `int(event["event_id"]) <= self._last_interrupt_id`.
IsStale(id, watermark) == id <= watermark

\* _handle_message, "audio". The frame is named by the position of its event
\* in the receive history, so every frame is distinct.
RecvAudio(i, id) ==
    LET frame == Len(received) + 1 IN
    /\ Receiving(i)
    /\ running
    /\ received' = Append(received, Rec("audio", id, "", NoMs))
    /\ count' = Bump(count, "events")
    /\ IF IsStale(id, lastInterruptId)
          THEN UNCHANGED <<outputCalls, outputQueue>>
          ELSE /\ outputCalls' = Append(outputCalls, frame)
               /\ outputQueue' = AudioOutput(outputQueue, shouldStop, frame)
    /\ UNCHANGED <<sessionVars, toolVars, sock, taskVars, shouldStop, outputThread,
                   inStream, outStream, pa, inputCallback, inState, outState,
                   poolShutdown, thr, thrFrame, written, sent, latencyNotes, handlerCalls>>

\* _handle_message, "interruption": the watermark is set and interrupt() is
\* scheduled as a task.
RecvInterruption(i, id) ==
    /\ Receiving(i)
    /\ running
    /\ received' = Append(received, Rec("interruption", id, "", NoMs))
    /\ count' = Bump(count, "events")
    /\ lastInterruptId' = id
    /\ pendingInterrupts' = pendingInterrupts + 1
    /\ UNCHANGED <<running, conversationId, ws, latencyCallback, toolVars,
                   sock, pc, call, joinTarget, cbSock, cur, intPc, audioVars,
                   outputCalls, written, sent, latencyNotes, handlerCalls>>

\* _handle_message, "ping": the pong is sent on self._ws; a send on a closed
\* socket raises into the loop's except clauses, which call end_session.
RecvPing(i, id, ms) ==
    LET t == StartTask(i) IN
    /\ Receiving(i)
    /\ running
    /\ received' = Append(received, Rec("ping", id, "", ms))
    /\ count' = Bump(count, "events")
    /\ IF CanSend(ws)
          THEN /\ sent' = Append(sent, Msg("pong", id, FALSE, "", ws))
               /\ pc' = [pc EXCEPT ![t] = "ping_sent"]
               /\ call' = [call EXCEPT ![i] = Event("ping", id, "", ms, ws)]
               /\ UNCHANGED cur
          ELSE /\ pc' = [pc EXCEPT ![t] = "end_entry"]
               /\ cur' = t
               /\ UNCHANGED <<sent, call>>
    /\ UNCHANGED <<sessionVars, toolVars, sock, joinTarget, cbSock, intPc,
                   pendingInterrupts, audioVars, outputCalls, written, latencyNotes,
                   handlerCalls>>

\* `if self.callback_latency_measurement and event["ping_ms"]`: Python truth of
\* the callback and of ping_ms (None and 0 are false).
LatencyDue(cb, ms) == cb /\ ms # NoMs /\ ms # 0

\* _handle_message, "ping", after `await self._ws.send(...)`.
PingSent(i) ==
    /\ cur = NoTask
    /\ pc[StartTask(i)] = "ping_sent"
    /\ latencyNotes' = IF LatencyDue(latencyCallback, call[i].ms)
                          THEN Append(latencyNotes, call[i].ms) ELSE latencyNotes
    /\ pc' = [pc EXCEPT ![StartTask(i)] = "recv"]
    /\ call' = [call EXCEPT ![i] = NoEvent]
    /\ UNCHANGED <<sessionVars, toolVars, sock, joinTarget, cbSock, cur, intPc,
                   pendingInterrupts, audioVars, received, outputCalls, written, sent,
                   handlerCalls, count>>

\* handle(), `handler = self.tools[tool_name]` and its invocation: the name, the
\* handler taken from the registry (None for a name it does not hold), and the
\* number of register() calls before.
HandlerCall(name) ==
    [name |-> name,
     handler |-> IF name \in DOMAIN tools THEN tools[name] ELSE None,
     regs |-> Len(registrations)]

\* Variant of HandleCheck: no lookup of the name before the handler is taken.
HandleCheckNoLookup(name) == IF ~toolsRunning THEN "not_running" ELSE "invoke"

\* AsyncClientTools.handle before the handler runs: "not_running" and
\* "not_registered" are the two exceptions it raises itself.
HandleCheck(name) ==
    IF ~toolsRunning THEN "not_running"
    ELSE IF name \notin DOMAIN tools THEN "not_registered"
    ELSE "invoke"

\* The client_tool_result built from the handler's outcome:
\* `result or f"Client tool: {tool_name} called successfully."`, or str(e).
ToolResponse(cid, outcome, k) ==
    Msg("client_tool_result", cid, outcome = "raise",
        CASE outcome = "value" -> "value"
          [] outcome = "nothing" -> "called successfully"
          [] OTHER -> "error text", k)

\* `if self._running: await self._ws.send(json.dumps(response))`.
ResultDue == running

\* Variant of ResultSent: only the try branch sends.
ResultSentOnSuccess(log, cid, outcome, k) ==
    IF outcome = "raise" THEN log ELSE Append(log, ToolResponse(cid, outcome, k))

\* The socket's log after the result of one tool call went out: the try branch
\* and the except branch both build a response, and one send follows.
ResultSent(log, cid, outcome, k) == Append(log, ToolResponse(cid, outcome, k))

\* _handle_message, "client_tool_call", up to the await of the handler, or, when
\* handle raises at once, up to the send of the error result.
RecvToolCall(i, cid, name) ==
    LET t == StartTask(i) IN
    /\ Receiving(i)
    /\ running
    /\ received' = Append(received, Rec("client_tool_call", cid, name, NoMs))
    /\ count' = Bump(count, "events")
    /\ IF HandleCheck(name) = "invoke"
          THEN /\ handlerCalls' = Append(handlerCalls, HandlerCall(name))
               /\ call' = [call EXCEPT ![i] = Event("client_tool_call", cid, name, NoMs, None)]
               /\ pc' = [pc EXCEPT ![t] = "tool_wait"]
               /\ UNCHANGED <<sent, cur>>
          ELSE /\ UNCHANGED handlerCalls
               /\ IF ~ResultDue
                     THEN /\ pc' = [pc EXCEPT ![t] = "recv"]
                          /\ UNCHANGED <<sent, cur, call>>
                     ELSE IF CanSend(ws)
                             THEN /\ sent' = ResultSent(sent, cid, "raise", ws)
                                  /\ pc' = [pc EXCEPT ![t] = "tool_sent"]
                                  /\ call' = [call EXCEPT ![i] =
                                                 Event("client_tool_call", cid, name, NoMs, ws)]
                                  /\ UNCHANGED cur
                             ELSE /\ pc' = [pc EXCEPT ![t] = "end_entry"]
                                  /\ cur' = t
                                  /\ UNCHANGED <<sent, call>>
    /\ UNCHANGED <<sessionVars, toolVars, sock, joinTarget, cbSock, intPc,
                   pendingInterrupts, audioVars, outputCalls, written, latencyNotes>>

\* The handler returns a value, returns None or raises; the result is sent if
\* the session is still running.
ToolReturn(i, outcome) ==
    LET t == StartTask(i) IN
    /\ cur = NoTask
    /\ pc[t] = "tool_wait"
    /\ IF ~ResultDue
          THEN /\ pc' = [pc EXCEPT ![t] = "recv"]
               /\ call' = [call EXCEPT ![i] = NoEvent]
               /\ UNCHANGED <<sent, cur>>
          ELSE IF CanSend(ws)
                  THEN /\ sent' = ResultSent(sent, call[i].id, outcome, ws)
                       /\ pc' = [pc EXCEPT ![t] = "tool_sent"]
                       /\ call' = [call EXCEPT ![i].sock = ws]
                       /\ UNCHANGED cur
                  ELSE /\ pc' = [pc EXCEPT ![t] = "end_entry"]
                       /\ call' = [call EXCEPT ![i] = NoEvent]
                       /\ cur' = t
                       /\ UNCHANGED sent
    /\ UNCHANGED <<sessionVars, toolVars, sock, joinTarget, cbSock, intPc,
                   pendingInterrupts, audioVars, received, outputCalls, written,
                   latencyNotes, handlerCalls, count>>

\* `await self._ws.send(json.dumps(response))` returns; the loop waits again.
ToolSent(i) ==
    /\ cur = NoTask
    /\ pc[StartTask(i)] = "tool_sent"
    /\ pc' = [pc EXCEPT ![StartTask(i)] = "recv"]
    /\ call' = [call EXCEPT ![i] = NoEvent]
    /\ UNCHANGED <<sessionVars, toolVars, sock, joinTarget, cbSock, cur, intPc,
                   pendingInterrupts, audioVars, histVars>>

\* An awaited ws.send raises after it suspended, the connection having gone
\* down meanwhile: in the receive loop the except clauses call end_session.
LoopSendFail(i) ==
    /\ cur = NoTask
    /\ pc[StartTask(i)] \in {"ping_sent", "tool_sent"}
    /\ sock[call[i].sock] # "open"
    /\ pc' = [pc EXCEPT ![StartTask(i)] = "end_entry"]
    /\ cur' = StartTask(i)
    /\ call' = [call EXCEPT ![i] = NoEvent]
    /\ UNCHANGED <<sessionVars, toolVars, sock, joinTarget, cbSock, intPc,
                   pendingInterrupts, audioVars, histVars>>

\* `async for message in ws` on a socket closed with a normal close code: the
\* iterator of the websockets library ends and the loop is left without a call
\* of end_session.
LoopClosed(i) ==
    /\ cur = NoTask
    /\ pc[StartTask(i)] = "recv"
    /\ sock[i] = "closedOK"
    /\ pc' = [pc EXCEPT ![StartTask(i)] = "exit_with"]
    /\ cur' = StartTask(i)
    /\ UNCHANGED <<sessionVars, toolVars, sock, call, joinTarget, cbSock, intPc,
                   pendingInterrupts, audioVars, histVars>>

\* `async for message in ws` on a socket closed with an error: the iterator
\* raises and `except Exception` calls end_session.
LoopError(i) ==
    /\ cur = NoTask
    /\ pc[StartTask(i)] = "recv"
    /\ sock[i] = "closedErr"
    /\ pc' = [pc EXCEPT ![StartTask(i)] = "end_entry"]
    /\ cur' = StartTask(i)
    /\ UNCHANGED <<sessionVars, toolVars, sock, call, joinTarget, cbSock, intPc,
                   pendingInterrupts, audioVars, histVars>>

\* Leaving `async with ws_connect(...) as ws`: the socket is closed and
\* start_session returns, or raises the exception that left the block.
Exit(i) ==
    LET t == StartTask(i) IN
    /\ cur = t
    /\ pc[t] \in {"exit_with", "exit_raise"}
    /\ sock' = [sock EXCEPT ![i] = IF @ = "open" THEN "closedOK" ELSE @]
    /\ pc' = [pc EXCEPT ![t] = IF @ = "exit_with" THEN "returned" ELSE "raised"]
    /\ cur' = NoTask
    /\ UNCHANGED <<sessionVars, toolVars, call, joinTarget, cbSock, intPc,
                   pendingInterrupts, audioVars, histVars>>

\* The remote closes the connection with a normal close code.
RemoteClose(i) ==
    /\ sock[i] = "open"
    /\ sock' = [sock EXCEPT ![i] = "closedOK"]
    /\ UNCHANGED <<sessionVars, toolVars, taskVars, audioVars, histVars>>

\* The connection breaks.
TransportError(i) ==
    /\ sock[i] = "open"
    /\ sock' = [sock EXCEPT ![i] = "closedErr"]
    /\ UNCHANGED <<sessionVars, toolVars, taskVars, audioVars, histVars>>

\* The owner of the session calls end_session.
EndCall(e) ==
    /\ cur = NoTask
    /\ pc[EndTask(e)] = "new"
    /\ \A j \in EndIds : j < e => pc[EndTask(j)] # "new"
    /\ pc' = [pc EXCEPT ![EndTask(e)] = "end_entry"]
    /\ cur' = EndTask(e)
    /\ UNCHANGED <<sessionVars, toolVars, sock, call, joinTarget, cbSock, intPc,
                   pendingInterrupts, audioVars, histVars>>

\* Variant of EndGuard: the guard tests the socket instead of the flag.
EndGuardOnSocket == ws = None

\* end_session, `if not self._running: return`.
EndGuard == ~running

\* end_session up to the first await of AsyncDefaultAudioInterface.stop():
\* _running is cleared, should_stop is set and, if there is a playback thread,
\* its join is handed to the thread pool, which raises once the pool is shut down.
EndSession(t) ==
    /\ cur = t
    /\ pc[t] = "end_entry"
    /\ IF EndGuard
          THEN /\ pc' = [pc EXCEPT ![t] = ReturnPc(t)]
               /\ cur' = HoldAfter(t)
               /\ count' = Bump(count, "endCalls")
               /\ UNCHANGED <<running, shouldStop, joinTarget>>
          ELSE /\ running' = FALSE
               /\ shouldStop' = TRUE
               /\ count' = IF outputThread # None /\ poolShutdown
                              THEN Bump(Bump(Bump(count, "endCalls"), "audioStops"), "endRaises")
                              ELSE Bump(Bump(count, "endCalls"), "audioStops")
               /\ IF outputThread = None
                     THEN /\ pc' = [pc EXCEPT ![t] = "end_cleanup"]
                          /\ UNCHANGED <<cur, joinTarget>>
                     ELSE IF poolShutdown
                             THEN /\ pc' = [pc EXCEPT ![t] = RaisePc(t)]
                                  /\ cur' = HoldAfter(t)
                                  /\ UNCHANGED joinTarget
                             ELSE /\ pc' = [pc EXCEPT ![t] = "end_join"]
                                  /\ joinTarget' = [joinTarget EXCEPT ![t] = outputThread]
                                  /\ cur' = NoTask
    /\ UNCHANGED <<lastInterruptId, conversationId, ws, latencyCallback,
                   toolVars, sock, call, cbSock, intPc, pendingInterrupts,
                   outputQueue, outputThread, inStream, outStream, pa, inputCallback,
                   inState, outState, poolShutdown, thr, thrFrame,
                   received, outputCalls, written, sent, latencyNotes, handlerCalls>>

\* stop(), `await self.loop.run_in_executor(self.thread_pool, self.output_thread.join)`
\* completes once the joined thread has ended.
EndJoin(t) ==
    /\ cur = NoTask
    /\ pc[t] = "end_join"
    /\ thr[joinTarget[t]] = "exited"
    /\ pc' = [pc EXCEPT ![t] = "end_cleanup"]
    /\ cur' = t
    /\ joinTarget' = [joinTarget EXCEPT ![t] = None]
    /\ UNCHANGED <<sessionVars, toolVars, sock, call, cbSock, intPc, pendingInterrupts,
                   audioVars, histVars>>

\* `if self._ws and not self._ws.closed`.
CloseDue == ws # None /\ sock[ws] = "open"

\* The rest of stop() (streams closed, PyAudio terminated, pool shut down), then
\* client_tools.stop() and the close of the socket. in_stream.stop_stream() may
\* raise a device error (deviceError); nothing in end_session catches it.
EndCleanup(t, deviceError) ==
    /\ cur = t
    /\ pc[t] = "end_cleanup"
    /\ deviceError => inStream # None
    /\ IF deviceError
          THEN /\ pc' = [pc EXCEPT ![t] = RaisePc(t)]
               /\ cur' = HoldAfter(t)
               /\ count' = Bump(count, "endRaises")
               /\ UNCHANGED <<inState, outState, poolShutdown, toolsRunning, sock>>
          ELSE /\ inState' = IF inStream = None THEN inState
                             ELSE [inState EXCEPT ![inStream] = "closed"]
               /\ outState' = IF outStream = None THEN outState
                              ELSE [outState EXCEPT ![outStream] = "closed"]
               /\ poolShutdown' = TRUE
               /\ toolsRunning' = FALSE
               /\ IF CloseDue
                     THEN /\ sock' = [sock EXCEPT ![ws] = "closedOK"]
                          /\ count' = Bump(Bump(count, "toolStops"), "closes")
                          /\ pc' = [pc EXCEPT ![t] = "end_closing"]
                          /\ cur' = NoTask
                     ELSE /\ count' = Bump(count, "toolStops")
                          /\ pc' = [pc EXCEPT ![t] = ReturnPc(t)]
                          /\ cur' = HoldAfter(t)
                          /\ UNCHANGED sock
    /\ UNCHANGED <<sessionVars, tools, registrations, call, joinTarget, cbSock, intPc,
                   pendingInterrupts,
                   shouldStop, outputQueue, outputThread, inStream, outStream, pa,
                   inputCallback, thr, thrFrame,
                   received, outputCalls, written, sent, latencyNotes, handlerCalls>>

\* end_session, `await self._ws.close()` returns.
EndClosed(t) ==
    /\ cur = NoTask
    /\ pc[t] = "end_closing"
    /\ pc' = [pc EXCEPT ![t] = ReturnPc(t)]
    /\ cur' = HoldAfter(t)
    /\ UNCHANGED <<sessionVars, toolVars, sock, call, joinTarget, cbSock, intPc,
                   pendingInterrupts, audioVars, histVars>>

\* sync_input_wrapper on the capture thread: a captured frame schedules
\* input_callback on the event loop unless should_stop is set.
Capture(c) ==
    /\ pc[CbTask(c)] = "new"
    /\ \A j \in CaptureIds : j < c => pc[CbTask(j)] # "new"
    /\ \E g \in StartIds : inState[g] = "open"
    /\ inputCallback # None
    /\ ~shouldStop
    /\ pc' = [pc EXCEPT ![CbTask(c)] = "ready"]
    /\ cbSock' = [cbSock EXCEPT ![c] = inputCallback]
    /\ count' = Bump(count, "captures")
    /\ UNCHANGED <<sessionVars, toolVars, sock, call, joinTarget, cur, intPc,
                   pendingInterrupts, audioVars, received, outputCalls, written, sent,
                   latencyNotes, handlerCalls>>

\* input_callback: nothing when not running; else the frame is sent on the
\* socket of its start_session, and a failed send calls end_session.
InputCallback(c) ==
    LET t == CbTask(c) IN
    /\ cur = NoTask
    /\ pc[t] = "ready"
    /\ IF ~running
          THEN /\ pc' = [pc EXCEPT ![t] = "returned"]
               /\ UNCHANGED <<sent, cur>>
          ELSE IF CanSend(cbSock[c])
                  THEN /\ sent' = Append(sent, Msg("user_audio_chunk", c, FALSE, "", cbSock[c]))
                       /\ pc' = [pc EXCEPT ![t] = "cb_sending"]
                       /\ UNCHANGED cur
                  ELSE /\ pc' = [pc EXCEPT ![t] = "end_entry"]
                       /\ cur' = t
                       /\ UNCHANGED sent
    /\ UNCHANGED <<sessionVars, toolVars, sock, call, joinTarget, cbSock, intPc,
                   pendingInterrupts, audioVars, received, outputCalls, written,
                   latencyNotes, handlerCalls, count>>

\* input_callback, `await ws.send(...)` returns.
CbSent(c) ==
    /\ cur = NoTask
    /\ pc[CbTask(c)] = "cb_sending"
    /\ pc' = [pc EXCEPT ![CbTask(c)] = "returned"]
    /\ UNCHANGED <<sessionVars, toolVars, sock, call, joinTarget, cbSock, cur, intPc,
                   pendingInterrupts, audioVars, histVars>>

\* input_callback, `await ws.send(...)` raises after it suspended: both except
\* clauses call end_session.
CbSendFail(c) ==
    /\ cur = NoTask
    /\ pc[CbTask(c)] = "cb_sending"
    /\ sock[cbSock[c]] # "open"
    /\ pc' = [pc EXCEPT ![CbTask(c)] = "end_entry"]
    /\ cur' = CbTask(c)
    /\ UNCHANGED <<sessionVars, toolVars, sock, call, joinTarget, cbSock, intPc,
                   pendingInterrupts, audioVars, histVars>>

\* ------------------------------------------------------ the next-state relations

\* start_session up to the receive loop, every step succeeding.
Starting(i) ==
    \/ StartSession(i)
    \/ ResolveOk(i)
    \/ ConnectOk(i)
    \/ AudioStart(i, "ok")

\* The failures of start_session before the receive loop.
StartFailing(i) ==
    \/ ResolveFail(i)
    \/ ConnectFail(i)
    \/ InitSendFail(i)
    \/ \E o \in StartOutcomes \ {"ok"} : AudioStart(i, o)

AudioEvents(i) ==
    \/ \E id \in EventIds : RecvAudio(i, id)
    \/ \E id \in EventIds : RecvInterruption(i, id)

MetadataEvents(i) == \E c \in ConvIds : RecvMetadata(i, c)

MalformedEvents(i) == \E k \in MalformedKinds : RecvMalformed(i, k)

PingEvents(i) ==
    \/ \E id \in EventIds, ms \in PingMs : RecvPing(i, id, ms)
    \/ PingSent(i)

ToolEvents(i) ==
    \/ \E cid \in CallIds, n \in ToolNames : RecvToolCall(i, cid, n)
    \/ \E o \in Outcomes : ToolReturn(i, o)
    \/ ToolSent(i)

\* The receive loop is left on a message that finds _running cleared or on the
\* end of the socket's iterator, and start_session returns.
Leaving(i) ==
    \/ LoopBreak(i)
    \/ LoopClosed(i)
    \/ Exit(i)

Network(i) ==
    \/ RemoteClose(i)
    \/ TransportError(i)
    \/ LoopError(i)

\* A reply's send fails under way.
ReplyFailing(i) == LoopSendFail(i)

Ending ==
    \/ \E e \in EndIds : EndCall(e)
    \/ \E t \in Tasks : EndSession(t)
    \/ \E t \in Tasks : EndJoin(t)
    \/ \E t \in Tasks, d \in BOOLEAN : EndCleanup(t, d)
    \/ \E t \in Tasks : EndClosed(t)

Capturing ==
    \/ \E c \in CaptureIds : Capture(c)
    \/ \E c \in CaptureIds : InputCallback(c)
    \/ \E c \in CaptureIds : CbSent(c)
    \/ \E c \in CaptureIds : CbSendFail(c)

Playback ==
    \/ \E g \in StartIds : ThreadCheck(g)
    \/ \E g \in StartIds : ThreadGet(g)
    \/ \E g \in StartIds : ThreadCheck2(g)
    \/ \E g \in StartIds : ThreadWrite(g)

Registering ==
    \E r \in RegisterIds, n \in ToolNames, h \in Handlers, a \in BOOLEAN :
        Register(r, n, h, a)

Interrupting ==
    \/ InterruptBegin
    \/ InterruptGet
    \/ InterruptReturn

\* The whole program: every operation, every event, every failure.
Next ==
    \/ \E i \in StartIds : Starting(i) \/ StartFailing(i)
    \/ \E i \in StartIds : AudioEvents(i) \/ MetadataEvents(i) \/ PingEvents(i) \/ ToolEvents(i)
    \/ \E i \in StartIds : MalformedEvents(i)
    \/ \E i \in StartIds : Leaving(i) \/ Network(i) \/ ReplyFailing(i)
    \/ Ending
    \/ Capturing
    \/ Playback
    \/ Interrupting
    \/ Registering

Spec == Init /\ [][Next]_vars

\* The session as the program constructs it (no latency callback is passed).
InitPlain == Init /\ ~latencyCallback

\* One session receiving audio and interruptions while the playback thread
\* drains the queue, ended by its owner.
NextAudio ==
    \/ Starting(1)
    \/ AudioEvents(1)
    \/ Leaving(1)
    \/ Ending
    \/ Playback
    \/ Interrupting

SpecAudio == InitPlain /\ [][NextAudio]_vars

\* One session answering pings, ended by its owner, by the remote's close or
\* by a transport error.
NextPings ==
    \/ Starting(1)
    \/ PingEvents(1)
    \/ Leaving(1)
    \/ Network(1)
    \/ ReplyFailing(1)
    \/ Ending
    \/ \E g \in StartIds : ThreadCheck(g) \/ ThreadGet(g)

SpecPings == Init /\ [][NextPings]_vars

\* One session answering tool calls, ended by its owner or by a transport error.
NextTools ==
    \/ Starting(1)
    \/ ToolEvents(1)
    \/ Leaving(1)
    \/ TransportError(1)
    \/ LoopError(1)
    \/ ReplyFailing(1)
    \/ Ending
    \/ \E g \in StartIds : ThreadCheck(g) \/ ThreadGet(g)

SpecTools == InitPlain /\ [][NextTools]_vars

\* The end of one session: every end_session call, by the owner, by the
\* receive loop and by the capture callback, every failure of start_session,
\* the network.
NextEnding ==
    \/ Starting(1)
    \/ StartFailing(1)
    \/ Leaving(1)
    \/ Network(1)
    \/ Ending
    \/ Capturing
    \/ \E g \in StartIds : ThreadCheck(g) \/ ThreadGet(g)

SpecEnding == InitPlain /\ [][NextEnding]_vars

\* The scheduling of the program: the event loop runs every coroutine that can
\* run, and the playback thread runs. Nothing is assumed of the remote (whether
\* it sends, closes or fails) nor of the capture device.
EndFair(t) ==
    WF_vars(EndSession(t) \/ EndJoin(t) \/ EndClosed(t) \/ \E d \in BOOLEAN : EndCleanup(t, d))
LoopFair(i) == WF_vars(LoopClosed(i) \/ LoopError(i) \/ Exit(i))
ThreadFair(g) == WF_vars(ThreadCheck(g) \/ ThreadGet(g))
CallbackFair(c) == WF_vars(InputCallback(c) \/ CbSent(c) \/ CbSendFail(c))

Scheduling ==
    /\ \A t \in Tasks : EndFair(t)
    /\ \A i \in StartIds : LoopFair(i)
    /\ \A g \in StartIds : ThreadFair(g)
    /\ \A c \in CaptureIds : CallbackFair(c)

\* The end of one session under the program's scheduling.
SpecEndingLive == InitPlain /\ [][NextEnding]_vars /\ Scheduling

\* The session object started again and again: every start_session and
\* end_session call of the owner, every failure of start_session.
NextRestart ==
    \/ \E i \in StartIds : Starting(i) \/ StartFailing(i)
    \/ \E i \in StartIds : Leaving(i)
    \/ Ending
    \/ \E g \in StartIds : ThreadCheck(g) \/ ThreadGet(g)

SpecRestart == InitPlain /\ [][NextRestart]_vars

\* One session answering tool calls while the registry is registered into.
NextRegistry ==
    \/ Starting(1)
    \/ \E n \in ToolNames : RecvToolCall(1, 1, n)
    \/ ToolReturn(1, "value")
    \/ ToolSent(1)
    \/ Registering

SpecRegistry == InitPlain /\ [][NextRegistry]_vars

\* One session receiving metadata events and events the protocol does not
\* define, ended by its owner.
NextProtocol ==
    \/ Starting(1)
    \/ MetadataEvents(1)
    \/ MalformedEvents(1)
    \/ Leaving(1)
    \/ Ending
    \/ \E g \in StartIds : ThreadCheck(g) \/ ThreadGet(g)

SpecProtocol == InitPlain /\ [][NextProtocol]_vars

\* One session receiving tool calls and pings, its handlers as slow as they like.
NextHandlers ==
    \/ Starting(1)
    \/ ToolEvents(1)
    \/ PingEvents(1)

SpecHandlers == InitPlain /\ [][NextHandlers]_vars

\* One session answering pings while the capture callback sends the user's audio.
NextSends ==
    \/ Starting(1)
    \/ PingEvents(1)
    \/ \E c \in CaptureIds : Capture(c) \/ InputCallback(c) \/ CbSent(c)

SpecSends == InitPlain /\ [][NextSends]_vars

\* The audio capability stopped in every start state: before its start, after
\* a start that failed part-way, after a completed start, and again after a
\* completed stop (the session started again and ended by a transport error).
NextStops ==
    \/ \E i \in StartIds : Starting(i) \/ StartFailing(i)
    \/ \E i \in StartIds : Leaving(i)
    \/ \E i \in StartIds : TransportError(i) \/ LoopError(i)
    \/ Ending
    \/ \E g \in StartIds : ThreadCheck(g) \/ ThreadGet(g)

SpecStops == InitPlain /\ [][NextStops]_vars

\* Audio arriving on a session object that is started, ended and started
\* again, so that output() is called after the audio capability was stopped.
\* No interruption arrives, so every audio event is fresh whatever its id.
NextStopped ==
    \/ \E i \in StartIds : Starting(i)
    \/ \E i \in StartIds : RecvAudio(i, 1)
    \/ \E i \in StartIds : Leaving(i)
    \/ Ending
    \/ Playback

SpecStopped == InitPlain /\ [][NextStopped]_vars

\* The messages sent on the sockets of a session object that is started,
\* ended and started again: the initial configuration, the receive loops'
\* pongs (sent on self._ws, whichever loop sends) and the user's audio of one
\* captured frame.
NextOutbound ==
    \/ \E i \in {1, 2} : Starting(i)
    \/ \E i \in {1, 2} : RecvPing(i, 1, NoMs) \/ PingSent(i)
    \/ \E i \in {1, 2} : Leaving(i)
    \/ Capture(1) \/ InputCallback(1) \/ CbSent(1)
    \/ Ending
    \/ \E g \in StartIds : ThreadCheck(g) \/ ThreadGet(g)

SpecOutbound == InitPlain /\ [][NextOutbound]_vars

\* Playback across restarts of one session object: start_session is called
\* again while an end_session still waits for the playback thread, audio frames
\* arrive, and a loop ends its session after a transport error.
NextWrites ==
    \/ \E i \in StartIds : Starting(i)
    \/ \E i \in StartIds : RecvAudio(i, 1)
    \/ \E i \in StartIds : Leaving(i)
    \/ \E i \in StartIds : TransportError(i) \/ LoopError(i)
    \/ Ending
    \/ Playback

SpecWrites == InitPlain /\ [][NextWrites]_vars

\* ------------------------------------------------------------------ properties

Range(q) == {q[k] : k \in 1..Len(q)}

\* The frames being played or waiting to be: passed to output(), in the queue,
\* in the playback thread's hand, or written to the device.
FramesPastOutput ==
    Range(outputCalls) \cup Range(outputQueue) \cup Range(written)
        \cup {thrFrame[g] : g \in StartIds}

StaleAtReceipt(k) == received[k].type = "audio" /\ received[k].id <= received[k].wm
FreshAtReceipt(k) == received[k].type = "audio" /\ received[k].id > received[k].wm

\* C1: an audio event whose id was at or below the interruption watermark when
\* it was received is never passed to output() and never reaches the playback
\* queue, the playback thread or the device.
C1_StaleAudioNeverForwarded ==
    \A k \in 1..Len(received) : StaleAtReceipt(k) => k \notin FramesPastOutput

\* Scenario A: an interruption, then audio with the same id (dropped), then
\* audio with a higher id (forwarded).
C1_Witness ==
    /\ Len(received) = 3
    /\ received[1].type = "interruption"
    /\ received[2].type = "audio" /\ received[2].id = received[1].id
    /\ received[3].type = "audio" /\ received[3].id > received[1].id
    /\ outputCalls = <<3>>

\* The audio events among the first n received that were fresh at receipt, in
\* the order of receipt.
RECURSIVE FreshFrames(_)
FreshFrames(n) ==
    IF n = 0 THEN <<>>
    ELSE IF FreshAtReceipt(n) THEN Append(FreshFrames(n - 1), n)
    ELSE FreshFrames(n - 1)

\* C2: the frames passed to output() are exactly the audio events handled by
\* the running session whose id was above the watermark at receipt, each once,
\* in the order of receipt.
C2_FreshAudioForwardedInOrder == outputCalls = FreshFrames(Len(received))

\* Two fresh chunks forwarded in order in a session that was interrupted.
C2_Witness ==
    /\ Len(outputCalls) = 2
    /\ outputCalls[1] < outputCalls[2]
    /\ \E k \in 1..Len(received) : received[k].type = "interruption"

\* C10: at the return of interrupt() the playback queue is empty, whatever the
\* playback thread took from it meanwhile.
C10_InterruptLeavesQueueEmpty ==
    (cur = IntTask /\ intPc = "ret") => outputQueue = <<>>

\* interrupt() returns after two frames were queued: the playback thread holds
\* one of them and the other was discarded.
C10_Witness ==
    /\ cur = IntTask /\ intPc = "ret"
    /\ Len(outputCalls) = 2
    /\ written = <<>>
    /\ \E g \in StartIds : thr[g] = "write" /\ thrFrame[g] = outputCalls[1]

InEndSession(t) == pc[t] \in {"end_entry", "end_join", "end_cleanup", "end_closing"}

\* A step in which task t runs end_session from its entry and finds the
\* session not running.
EndOnEnded(t) == pc[t] = "end_entry" /\ pc'[t] # "end_entry" /\ ~running

\* C3: end_session is idempotent. For every start of the session the audio
\* capability is stopped at most once, the tool registry at most once and the
\* socket closed at most once by end_session, however many calls are made and
\* however they overlap; a call that finds the session ended changes nothing.
C3_EndSessionIdempotent ==
    /\ [](/\ count["audioStops"] <= count["attempts"]
          /\ count["toolStops"] <= count["attempts"]
          /\ count["closes"] <= count["attempts"])
    /\ [][\A t \in Tasks : EndOnEnded(t) =>
             UNCHANGED <<sessionVars, toolVars, sock, audioVars, received, sent>>]_vars

\* The receive loop is inside end_session, waiting for the playback thread,
\* when the capture callback's failed send calls end_session too: the second
\* call has returned and nothing was stopped twice.
C3_Witness ==
    /\ pc[StartTask(1)] = "end_join"
    /\ pc[CbTask(1)] = "returned"
    /\ pc[EndTask(1)] = "new"
    /\ count["endCalls"] = 2
    /\ count["attempts"] = 1
    /\ count["audioStops"] = 1

\* C4: end_session attempts all three cleanup steps even if one fails, and
\* does not raise: no call of end_session has raised, and once no call is under
\* way the tool registry was stopped as often as the audio capability.
C4_CleanupBestEffort ==
    /\ count["endRaises"] = 0
    /\ (\A t \in Tasks : ~InEndSession(t)) => count["toolStops"] = count["audioStops"]

ConnectingPcs == {"resolve", "connect", "init_sent"}
ActivePcs == {"recv", "ping_sent", "tool_wait", "tool_sent"}

\* The session is connecting or active: a start_session is under way and no
\* end_session has taken effect.
ConnectingOrActive ==
    /\ \E j \in StartIds : pc[StartTask(j)] \in ConnectingPcs \cup ActivePcs
    /\ count["audioStops"] = 0

\* C5: a start_session call made while the session is connecting or active
\* returns at once and changes nothing: no connection attempt, no message
\* sent, no start of the audio capability, no change of the session's state.
C5_StartWhileActiveIsNoOp ==
    [][\A i \in StartIds :
          (pc[StartTask(i)] = "new" /\ pc'[StartTask(i)] # "new" /\ ConnectingOrActive)
          => /\ pc' = [pc EXCEPT ![StartTask(i)] = "returned"]
             /\ UNCHANGED <<sessionVars, toolVars, sock, audioVars, histVars,
                            call, joinTarget, cbSock, cur, intPc, pendingInterrupts>>]_vars

\* The second start_session has returned while the first is still connecting
\* or in its receive loop, and one connection attempt was made.
C5_Witness ==
    /\ pc[StartTask(2)] = "returned"
    /\ pc[StartTask(1)] \in ConnectingPcs \cup ActivePcs
    /\ running
    /\ count["attempts"] = 1

\* C6: a session object makes at most one connection attempt and starts audio
\* capture at most once in its lifetime, also when start_session is called
\* again after end_session.
C6_NoRestart == count["connects"] <= 1 /\ count["audioStarts"] <= 1

Calls(cid) ==
    Cardinality({k \in 1..Len(received) :
        received[k].type = "client_tool_call" /\ received[k].id = cid})
Results(cid) ==
    Cardinality({k \in 1..Len(sent) :
        sent[k].type = "client_tool_result" /\ sent[k].id = cid})

\* The receive loop has handled every event it received and the session is
\* still running.
LoopIdleAndRunning(i) == running /\ pc[StartTask(i)] \in {"recv", "tool_sent"}

\* C7: never more results than calls for a tool_call_id, and while the session
\* has stayed running every handled call has exactly one result, whatever the
\* handler did.
C7_OneResultPerToolCall ==
    \A cid \in CallIds :
        /\ Results(cid) <= Calls(cid)
        /\ LoopIdleAndRunning(1) => Results(cid) = Calls(cid)

\* A registered handler raised and its error result went out.
C7_Witness ==
    /\ LoopIdleAndRunning(1)
    /\ handlerCalls # <<>>
    /\ \A k \in 1..Len(received) : received[k].name \in DOMAIN tools
    /\ \E k \in 1..Len(sent) : sent[k].type = "client_tool_result" /\ sent[k].isError

Last(q) == q[Len(q)]

\* C8: the step that handles a tool call for an unregistered name invokes no
\* handler, sends one client_tool_result with the call's id and is_error true,
\* and leaves the running flag set and the registry as it was.
C8_UnknownToolGivesErrorResult ==
    [][(/\ Len(received') = Len(received) + 1
        /\ Last(received').type = "client_tool_call"
        /\ Last(received').name \notin DOMAIN tools)
       => /\ handlerCalls' = handlerCalls
          /\ running /\ running'
          /\ UNCHANGED toolVars
          /\ Len(sent') = Len(sent) + 1
          /\ Last(sent').type = "client_tool_result"
          /\ Last(sent').id = Last(received').id
          /\ Last(sent').isError]_vars

\* Scenario B: the unknown tool's call was answered with an error result.
C8_Witness ==
    /\ received # <<>> /\ sent # <<>>
    /\ Last(received).type = "client_tool_call"
    /\ Last(received).name = "unknownTool"
    /\ Last(sent).type = "client_tool_result"
    /\ Last(sent).id = Last(received).id
    /\ Last(sent).isError
    /\ handlerCalls = <<>>
    /\ running

Pings(id) ==
    Cardinality({k \in 1..Len(received) : received[k].type = "ping" /\ received[k].id = id})
Pongs(id) ==
    Cardinality({k \in 1..Len(sent) : sent[k].type = "pong" /\ sent[k].id = id})

\* The latency values carried by the first n events received, in order.
RECURSIVE LatencyValues(_)
LatencyValues(n) ==
    IF n = 0 THEN <<>>
    ELSE IF received[n].type = "ping" /\ received[n].ms # NoMs
            THEN Append(LatencyValues(n - 1), received[n].ms)
    ELSE LatencyValues(n - 1)

\* C9: once the running session has handled its events, every ping has exactly
\* one pong with its id, and with a latency callback registered every latency
\* value a ping carried was notified exactly once.
C9_PingAnswered ==
    (running /\ pc[StartTask(1)] = "recv")
    => /\ \A id \in EventIds : Pongs(id) = Pings(id)
       /\ latencyNotes = IF latencyCallback THEN LatencyValues(Len(received)) ELSE <<>>

\* The handler given in the first accepted registration of a name: the
\* program's own registration, or the first register() call that did not raise.
FirstRegistered(name) ==
    IF name \in RegisteredTools THEN MainHandler
    ELSE LET ks == {k \in 1..Len(registrations) :
                      registrations[k].name = name /\ ~registrations[k].raised}
             first == CHOOSE k \in ks : \A j \in ks : k <= j
         IN registrations[first].handler

\* C11: a register() call for a name that is already registered raises and
\* leaves the registry as it was; no entry of the registry ever changes, and
\* every handler that handle(name) invoked is the one of the first registration.
C11_DuplicateRegistrationRejected ==
    /\ [][Len(registrations') = Len(registrations) + 1
            => LET r == Last(registrations') IN
               r.name \in DOMAIN tools => r.raised /\ tools' = tools]_vars
    /\ [][\A n \in DOMAIN tools : n \in DOMAIN tools' /\ tools'[n] = tools[n]]_vars
    /\ [](\A k \in 1..Len(handlerCalls) :
              handlerCalls[k].handler = FirstRegistered(handlerCalls[k].name))

\* Scenario C: a second registration of the program's tool with another
\* coroutine handler raised, and a call of the tool made afterwards invoked the
\* first handler.
C11_Witness ==
    /\ \E k \in 1..Len(registrations) :
          /\ registrations[k].name = "playExistingSong"
          /\ registrations[k].isCoroutine
          /\ registrations[k].handler # MainHandler
          /\ registrations[k].raised
          /\ \E c \in 1..Len(handlerCalls) :
                /\ handlerCalls[c].name = "playExistingSong"
                /\ handlerCalls[c].regs >= k
                /\ handlerCalls[c].handler = MainHandler

\* The owner's end_session call is entered while the session is active, its
\* receive loop waiting for a message.
EndCalledWhileActive ==
    /\ running
    /\ pc[StartTask(1)] = "recv"
    /\ \E e \in EndIds : pc[EndTask(e)] = "end_entry"

StartReturned(i) == pc[StartTask(i)] \in {"returned", "raised"}

\* C12: after end_session is called on an active session, the receive loop
\* ends and start_session returns, whether or not another message arrives.
C12_EndSessionStopsTheLoop == EndCalledWhileActive ~> StartReturned(1)

\* The connection of the active session is gone, closed by the remote or
\* broken, and the session has not been told to end.
RemoteGoneWhileActive ==
    /\ running
    /\ pc[StartTask(1)] \in ActivePcs
    /\ sock[1] \in {"closedOK", "closedErr"}

\* The ended state: the flag is cleared, the audio capability was told to stop
\* and the tool registry is stopped.
Ended == ~running /\ shouldStop /\ ~toolsRunning

\* C13: when the remote closes the connection or the transport fails while the
\* session is active, the session reaches the ended state and start_session
\* returns without raising.
C13_RemoteCloseEndsSession ==
    RemoteGoneWhileActive ~> (Ended /\ pc[StartTask(1)] = "returned")

\* C14: an unknown or malformed inbound event affects only itself. As long as
\* the owner has not called end_session, a session whose latest event was such
\* an event is still running, with the audio capability and the tool registry
\* not stopped and its socket open.
C14_MalformedEventIsIgnored ==
    (/\ received # <<>>
     /\ Last(received).type \in MalformedKinds
     /\ \A e \in EndIds : pc[EndTask(e)] = "new")
    => /\ running
       /\ ~shouldStop
       /\ toolsRunning
       /\ sock[1] = "open"

\* A tool handler of the session is running: handle() awaits it.
HandlerRunning(i) == pc[StartTask(i)] = "tool_wait"

\* C15: a slow tool handler does not hold up the receive loop. While a handler
\* runs on a running session with an open socket and the event loop is free,
\* the receive loop takes the next ping and answers it.
C15_LoopReceivesWhileHandlerRuns ==
    (/\ HandlerRunning(1)
     /\ running
     /\ cur = NoTask
     /\ sock[1] = "open"
     /\ count["events"] < MaxEvents)
    => ENABLED (\E id \in EventIds, ms \in PingMs : RecvPing(1, id, ms))

\* The coroutines inside an awaited send on the socket: the receive loop
\* sending a pong or a tool result, the capture callback sending user audio.
Writers == {t \in Tasks : pc[t] \in {"ping_sent", "tool_sent", "cb_sending"}}

\* C16: sends on the socket are serialized: at no time is more than one
\* coroutine inside a send.
C16_OneWriterAtATime == Cardinality(Writers) <= 1

\* A step in which task t, inside end_session on a running session, calls
\* audio_interface.stop() and runs it up to the join of the playback thread.
StopEntered(t) == pc[t] = "end_entry" /\ running /\ pc'[t] # "end_entry"

\* C17: stop() of the audio capability is safe in every start state. A call
\* made before start, after a start that failed part-way, after a completed
\* start or after a completed stop does not raise: it goes on to wait for the
\* playback thread or to release the resources.
C17_AudioStopIsSafe ==
    [][\A t \in Tasks :
          StopEntered(t) => /\ shouldStop'
                            /\ pc'[t] \in {"end_join", "end_cleanup"}]_vars

\* The frames passed to output() after the audio capability was told to stop.
OutputAfterStop ==
    {k \in Range(outputCalls) : received[k].stopped}

\* C18: output() after the audio capability was told to stop is a no-op. The
\* call leaves the playback queue as it was, and the frame is never in the
\* queue, in the playback thread's hand or written to the device.
C18_OutputAfterStopIsNoOp ==
    /\ [][(Len(outputCalls') = Len(outputCalls) + 1 /\ shouldStop)
            => outputQueue' = outputQueue]_vars
    /\ [](\A k \in OutputAfterStop :
              /\ k \notin Range(outputQueue)
              /\ k \notin Range(written)
              /\ \A g \in StartIds : thrFrame[g] # k)

\* A frame was passed to output() after the stop while an earlier frame, queued
\* before the stop, is still in the queue.
C18_Witness ==
    /\ OutputAfterStop # {}
    /\ outputQueue # <<>>
    /\ shouldStop

\* The positions of the metadata events in the receive history.
MetadataAt ==
    {k \in 1..Len(received) : received[k].type = "conversation_initiation_metadata"}

\* C19: the conversation identifier is set at most once, from the first
\* metadata event: it is None until a metadata event arrives and the id of the
\* first one ever after, and a metadata event does not end the session.
C19_ConversationIdSetOnce ==
    /\ conversationId =
          IF MetadataAt = {} THEN None
          ELSE received[CHOOSE k \in MetadataAt : \A j \in MetadataAt : k <= j].id
    /\ (/\ received # <<>>
        /\ Last(received).type = "conversation_initiation_metadata"
        /\ \A e \in EndIds : pc[EndTask(e)] = "new") => running

\* The ids of the interruption events received, and 0.
InterruptionIds ==
    {0} \cup {received[k].id : k \in {j \in 1..Len(received) :
                                          received[j].type = "interruption"}}

\* C20: the last interruption id starts at 0, never decreases, and is always
\* the highest id among the interruption events received so far.
C20_WatermarkIsHighestInterruption ==
    /\ lastInterruptId \in InterruptionIds
    /\ \A id \in InterruptionIds : id <= lastInterruptId

\* The positions in the send history of the messages sent on socket k, and of
\* the initial configuration messages among them.
SentOn(k) == {j \in 1..Len(sent) : sent[j].sock = k}
InitialOn(k) ==
    {j \in SentOn(k) : sent[j].type = "conversation_initiation_client_data"}

\* C21: on every socket a session has opened, the initial configuration
\* message was sent exactly once and before every other message; nothing is
\* sent on a socket that was not opened.
C21_InitialMessageFirstAndOnce ==
    \A k \in StartIds :
        IF sock[k] = "none" THEN SentOn(k) = {}
        ELSE /\ Cardinality(InitialOn(k)) = 1
             /\ \A j \in SentOn(k), f \in InitialOn(k) : f <= j

\* The first socket carried the initial configuration, then a pong of the
\* receive loop and the user's audio of the capture callback.
C21_Witness ==
    /\ Cardinality(SentOn(1)) >= 3
    /\ \E j \in SentOn(1) : sent[j].type = "pong"
    /\ \E j \in SentOn(1) : sent[j].type = "user_audio_chunk"
    /\ sent[1].type = "conversation_initiation_client_data"

\* The frames passed to output() from audio events received after the latest
\* interruption event.
ForwardedSinceInterruption ==
    {k \in Range(outputCalls) :
        \A j \in 1..Len(received) : j > k => received[j].type # "interruption"}

\* C22: interrupt() discards only audio queued before its interruption event.
\* As long as the audio capability has not been told to stop, a frame forwarded
\* after the latest interruption is in the playback queue, in the playback
\* thread's hand or written to the device: no interrupt() has discarded it.
C22_InterruptSparesLaterAudio ==
    ~shouldStop =>
        \A k \in ForwardedSinceInterruption :
            \/ k \in Range(outputQueue)
            \/ k \in Range(written)
            \/ \E g \in StartIds : thrFrame[g] = k

\* C23: whenever start_session has terminated, by returning or by raising,
\* the running flag is false, the tool registry is not running and the audio
\* capability, if its start was called, has been told to stop.
C23_TerminatedStartLeavesSessionEnded ==
    StartReturned(1) =>
        /\ ~running
        /\ ~toolsRunning
        /\ (count["audioStarts"] > 0 => shouldStop)

\* An end_session call has found the session running and ended it.
EndTookEffect == count["audioStops"] > 0

\* C24: once end_session has ended the session, the audio capability and the
\* tool registry are not started afterwards, also when end_session ran while
\* start_session was resolving the endpoint or connecting; and once both calls
\* have finished no capture stream is open and the registry is stopped.
C24_NothingStartsAfterEnd ==
    /\ [][EndTookEffect => /\ count'["audioStarts"] = count["audioStarts"]
                           /\ count'["toolStarts"] = count["toolStarts"]]_vars
    /\ []((/\ EndTookEffect
           /\ StartReturned(1)
           /\ \A t \in Tasks : ~InEndSession(t))
          => /\ ~toolsRunning
             /\ \A g \in StartIds : inState[g] # "open")

\* A step in which playback thread g performs `self.out_stream.write(audio)`.
ThreadWrites(g) == thr[g] = "write" /\ thr'[g] # "write"

====
